---- MODULE Spec2Model ----
(***************************************************************************)
(* Model of internal/core/config.go of fleek: the in-memory Config, its    *)
(* validation rules, the four mutation operations (AddPackage,             *)
(* RemovePackage, AddProgram, RemoveProgram), Save and Eject, which        *)
(* serialize the Config to the configuration file, WriteSampleConfig and   *)
(* Clone, which create the file and the symlink $HOME/.fleek.yml, and      *)
(* ReadConfig, which reads the Config through that symlink.                *)
(*                                                                         *)
(* Go errors are modelled by the name of the error variable ("nil" for     *)
(* success); errors that have no name in the source are named after the    *)
(* call that returns them ("ErrLocation", "ErrCreate", "ErrWrite", ...).   *)
(***************************************************************************)
EXTENDS Integers, Sequences, FiniteSets, TLC

VARIABLES
    c,      \* the in-memory Config (the receiver of every method)
    disk,   \* the file .fleek.yml of each directory, by the directory's path
            \* under $HOME ("" is $HOME itself)
    link,   \* the target of the symlink $HOME/.fleek.yml: the directory whose
            \* .fleek.yml it points to, NoLink when there is no symlink
    last    \* the last call: operation, argument, result and what it did

vars == <<c, disk, link, last>>

----------------------------------------------------------------------------
(* Bounds of the model *)

\* AddPackage and AddProgram are explored while they leave the list no longer
\* than this
MaxLen == 2
\* the Configs handed to Validate hold at most this many Systems
MaxSystems == 2
\* where Eject and Save are explored next to the mutation operations, the
\* package list and the program list together hold at most this many names
MaxEjectNames == 1

----------------------------------------------------------------------------
(* Package-level values: config.go lines 17-28 and 90-98 *)

operatingSystems == <<"linux", "darwin">>
architectures == <<"aarch64", "x86_64">>
shells == <<"bash", "zsh">>
blingLevels == <<"low", "default", "high">>

nil == "nil"
ErrMissingFlakeDir == "ErrMissingFlakeDir"
ErrInvalidShell == "ErrInvalidShell"
ErrInvalidBling == "ErrInvalidBling"
ErrorInvalidArch == "ErrorInvalidArch"
ErrInvalidOperatingSystem == "ErrInvalidOperatingSystem"
ErrPackageNotFound == "ErrPackageNotFound"
ErrProgramNotFound == "ErrProgramNotFound"

ValidationErrors ==
    {ErrMissingFlakeDir, ErrInvalidShell, ErrInvalidBling, ErrorInvalidArch,
     ErrInvalidOperatingSystem}

----------------------------------------------------------------------------
(* Validation *)

\* isValueInList with the loop cut after the first element
isValueInList_FirstOnly(value, list) ==
    Len(list) > 0 /\ list[1] = value

\* for _, v := range list { if v == value { return true } }; return false
isValueInList(value, list) ==
    \E i \in 1..Len(list) : list[i] = value

RECURSIVE ValidateSystems(_, _)
\* the loop of Validate over c.Systems, from index i on: architecture, then
\* OS, of one System before the next System is looked at
ValidateSystems(systems, i) ==
    IF i > Len(systems) THEN nil
    ELSE IF ~isValueInList(systems[i].Arch, architectures) THEN ErrorInvalidArch
    ELSE IF ~isValueInList(systems[i].OS, operatingSystems)
         THEN ErrInvalidOperatingSystem
    ELSE ValidateSystems(systems, i + 1)

\* Validate with the shell and bling checks in the other order
Validate_BlingFirst(cfg) ==
    IF cfg.FlakeDir = "" THEN ErrMissingFlakeDir
    ELSE IF ~isValueInList(cfg.Bling, blingLevels) THEN ErrInvalidBling
    ELSE IF ~isValueInList(cfg.Shell, shells) THEN ErrInvalidShell
    ELSE ValidateSystems(cfg.Systems, 1)

Validate(cfg) ==
    IF cfg.FlakeDir = "" THEN ErrMissingFlakeDir
    ELSE IF ~isValueInList(cfg.Shell, shells) THEN ErrInvalidShell
    ELSE IF ~isValueInList(cfg.Bling, blingLevels) THEN ErrInvalidBling
    ELSE ValidateSystems(cfg.Systems, 1)

----------------------------------------------------------------------------
(* Serialization: yaml.Marshal and yaml.Unmarshal as Save and ReadConfig   *)
(* use them.  A document is the order of its keys, the style of each       *)
(* collection ("flow": inline, "block": one element per line) and the      *)
(* value of each key.                                                      *)

\* the yaml keys of Config in the order of the struct's fields (lines 33-46)
StructKeys ==
    <<"flakedir", "unfree", "shell", "bling", "repo", "name", "packages",
      "programs", "aliases", "paths", "ejected", "systems">>

\* the same keys as yaml.Marshal writes those of a map: sorted
SortedKeys ==
    <<"aliases", "bling", "ejected", "flakedir", "name", "packages", "paths",
      "programs", "repo", "shell", "systems", "unfree">>

\* the keys that hold a list or a mapping
CollectionKeys == {"packages", "programs", "aliases", "paths", "systems"}

\* the fields tagged `yaml:",flow"` (lines 41-43 and 46)
FlowKeys == {"packages", "programs", "aliases", "systems"}

\* System and GitConfig under their yaml keys (lines 48-59)
SystemToMap(s) ==
    [hostname |-> s.Hostname, username |-> s.Username, arch |-> s.Arch,
     os |-> s.OS, git |-> [name |-> s.GitConfig.Name, email |-> s.GitConfig.Email]]

MapToSystem(m) ==
    [Hostname |-> m.hostname, Username |-> m.username, Arch |-> m.arch,
     OS |-> m.os, GitConfig |-> [Name |-> m.git.name, Email |-> m.git.email]]

\* Config under its yaml keys (lines 33-46)
ConfigToMap(cfg) ==
    [flakedir |-> cfg.FlakeDir, unfree |-> cfg.Unfree, shell |-> cfg.Shell,
     bling |-> cfg.Bling, repo |-> cfg.Repository, name |-> cfg.Name,
     packages |-> cfg.Packages, programs |-> cfg.Programs,
     aliases |-> cfg.Aliases, paths |-> cfg.Paths, ejected |-> cfg.Ejected,
     systems |-> [i \in 1..Len(cfg.Systems) |-> SystemToMap(cfg.Systems[i])]]

\* the zero value of Config: c := &Config{} (line 239)
ZeroConfig ==
    [FlakeDir |-> "", Unfree |-> FALSE, Shell |-> "", Bling |-> "",
     Repository |-> "", Name |-> "", Packages |-> <<>>, Programs |-> <<>>,
     Aliases |-> {}, Paths |-> <<>>, Ejected |-> FALSE, Systems |-> <<>>]

\* whether the collection under key k of the map m has no element
IsEmptyCollection(m, k) ==
    IF k = "aliases" THEN m[k] = {} ELSE Len(m[k]) = 0

\* yaml.Marshal(&c) of the typed Config (line 214): struct order, the tagged
\* fields in flow style; yaml writes a collection without elements inline,
\* as [] or {}, whatever its tag
MarshalConfig(cfg) ==
    [order |-> StructKeys,
     style |-> [k \in CollectionKeys |->
                  IF k \in FlowKeys \/ IsEmptyCollection(ConfigToMap(cfg), k)
                  THEN "flow" ELSE "block"],
     val |-> ConfigToMap(cfg)]

\* yaml.Unmarshal(bb, &m) into an untyped map (lines 218-219): the values by
\* key; the order of the keys and the styles are not kept
UnmarshalMap(doc) == doc.val

\* MarshalMap keeping the flow style of the tagged fields, as a single
\* yaml.Marshal of the typed Config would
MarshalMap_KeepTags(m) ==
    [order |-> SortedKeys,
     style |-> [k \in CollectionKeys |->
                  IF k \in FlowKeys \/ IsEmptyCollection(m, k)
                  THEN "flow" ELSE "block"],
     val |-> m]

\* yaml.Marshal(&m) of the untyped map (line 223): sorted keys, no tags, so
\* every collection that has elements in block style; one without elements
\* is written inline, as [] or {}
MarshalMap(m) ==
    [order |-> SortedKeys,
     style |-> [k \in CollectionKeys |->
                  IF IsEmptyCollection(m, k) THEN "flow" ELSE "block"],
     val |-> m]

HasKey(doc, k) == \E i \in 1..Len(doc.order) : doc.order[i] = k

\* yaml.Unmarshal(bb, c) into a Config (line 249): each field from its key,
\* a field whose key the document lacks keeps its zero value
UnmarshalConfig(doc) ==
    [FlakeDir |-> IF HasKey(doc, "flakedir") THEN doc.val.flakedir ELSE ZeroConfig.FlakeDir,
     Unfree |-> IF HasKey(doc, "unfree") THEN doc.val.unfree ELSE ZeroConfig.Unfree,
     Shell |-> IF HasKey(doc, "shell") THEN doc.val.shell ELSE ZeroConfig.Shell,
     Bling |-> IF HasKey(doc, "bling") THEN doc.val.bling ELSE ZeroConfig.Bling,
     Repository |-> IF HasKey(doc, "repo") THEN doc.val.repo ELSE ZeroConfig.Repository,
     Name |-> IF HasKey(doc, "name") THEN doc.val.name ELSE ZeroConfig.Name,
     Packages |-> IF HasKey(doc, "packages") THEN doc.val.packages ELSE ZeroConfig.Packages,
     Programs |-> IF HasKey(doc, "programs") THEN doc.val.programs ELSE ZeroConfig.Programs,
     Aliases |-> IF HasKey(doc, "aliases") THEN doc.val.aliases ELSE ZeroConfig.Aliases,
     Paths |-> IF HasKey(doc, "paths") THEN doc.val.paths ELSE ZeroConfig.Paths,
     Ejected |-> IF HasKey(doc, "ejected") THEN doc.val.ejected ELSE ZeroConfig.Ejected,
     Systems |-> IF HasKey(doc, "systems")
                 THEN [i \in 1..Len(doc.val.systems) |-> MapToSystem(doc.val.systems[i])]
                 ELSE ZeroConfig.Systems]

----------------------------------------------------------------------------
(* The configuration file *)

\* a document with no key: what an empty file parses to
EmptyDoc ==
    [order |-> <<>>,
     style |-> [k \in CollectionKeys |-> "block"],
     val |-> ConfigToMap(ZeroConfig)]

\* no file at Location()
AbsentFile == [state |-> "absent", doc |-> EmptyDoc]

\* the file after os.Create (line 210) and before a complete WriteString:
\* created or truncated, holding no complete document
TruncatedFile == [state |-> "truncated", doc |-> EmptyDoc]

\* the file after WriteString wrote the whole text (line 229)
WrittenFile(doc) == [state |-> "written", doc |-> doc]

\* what the file system and Location() do during one call of Save
IOOutcomes == {"ok", "location_err", "create_err", "write_err"}

\* Save returning success when WriteString failed
Save_IgnoreWriteErr(cfg, f, io) ==
    IF io = "location_err"
    THEN [ret |-> "ErrLocation", file |-> f, created |-> FALSE, wrote |-> FALSE]
    ELSE IF io = "create_err"
    THEN [ret |-> "ErrCreate", file |-> f, created |-> FALSE, wrote |-> FALSE]
    ELSE IF io = "write_err"
    THEN [ret |-> nil, file |-> TruncatedFile, created |-> TRUE, wrote |-> FALSE]
    ELSE [ret |-> nil,
          file |-> WrittenFile(MarshalMap(UnmarshalMap(MarshalConfig(cfg)))),
          created |-> TRUE, wrote |-> TRUE]

\* Config.Save (lines 205-234): Location, os.Create, Marshal, Unmarshal into a
\* map, Marshal again, WriteString; the first error is returned
Save(cfg, f, io) ==
    IF io = "location_err"
    THEN [ret |-> "ErrLocation", file |-> f, created |-> FALSE, wrote |-> FALSE]
    ELSE IF io = "create_err"
    THEN [ret |-> "ErrCreate", file |-> f, created |-> FALSE, wrote |-> FALSE]
    ELSE IF io = "write_err"
    THEN [ret |-> "ErrWrite", file |-> TruncatedFile, created |-> TRUE, wrote |-> FALSE]
    ELSE [ret |-> nil,
          file |-> WrittenFile(MarshalMap(UnmarshalMap(MarshalConfig(cfg)))),
          created |-> TRUE, wrote |-> TRUE]

----------------------------------------------------------------------------
(* Paths.  Every path of the program is $HOME/.fleek.yml or                *)
(* $HOME/<FlakeDir>/.fleek.yml: a path is identified by its directory      *)
(* under $HOME, "" being $HOME itself.                                     *)

\* the flake directories the operations are called with
FlakeDirs == {".local/share/fleek", "dotfiles"}

\* the directories that can hold a .fleek.yml
Dirs == FlakeDirs \cup {""}

\* the value of link when there is no symlink $HOME/.fleek.yml
NoLink == "nolink"

\* Config.UserFlakeDir (lines 131-134): filepath.Join(home, c.FlakeDir)
UserFlakeDir(cfg) == cfg.FlakeDir

\* Config.Location: the path <UserFlakeDir>/.fleek.yml
Location(cfg) == UserFlakeDir(cfg)

\* the directory of the file that opening <dir>/.fleek.yml reaches when the
\* symlink is lnk: $HOME/.fleek.yml is followed to the symlink's target
Resolve(lnk, dir) == IF dir = "" /\ lnk # NoLink THEN lnk ELSE dir

\* the configuration file at the Location() of the Config in memory
file == disk[Resolve(link, Location(c))]

\* the files after a call left f at the Location() of the Config in memory
DiskWith(f) == [disk EXCEPT ![Resolve(link, Location(c))] = f]

\* os.Symlink(target, csym) (lines 274 and 353) with csym = $HOME/.fleek.yml:
\* it fails when something is at csym already, a symlink or a file
Symlink(dsk, lnk, target) ==
    IF lnk # NoLink \/ dsk[""].state # "absent"
    THEN [ret |-> "ErrExist", link |-> lnk, linked |-> FALSE]
    ELSE [ret |-> nil, link |-> target, linked |-> TRUE]

----------------------------------------------------------------------------
(* The mutation operations.  Each operator takes the Config, the file and  *)
(* the outcome of the I/O and gives what the call leaves behind: the       *)
(* Config, the file, the error returned, and whether Validate and Save     *)
(* were called.                                                            *)

\* a return before Save is called
Returned(cfg, f, err, validated) ==
    [c |-> cfg, file |-> f, ret |-> err, validated |-> validated,
     saved |-> FALSE, created |-> FALSE, wrote |-> FALSE]

\* `return c.Save()`, s being what Save did
ReturnedSave(cfg, s) ==
    [c |-> cfg, file |-> s.file, ret |-> s.ret, validated |-> TRUE,
     saved |-> TRUE, created |-> s.created, wrote |-> s.wrote]

\* the index of the first element equal to name (the loops with `break`),
\* 0 when there is none
IndexOf(list, name) ==
    IF \E i \in 1..Len(list) : list[i] = name
    THEN CHOOSE i \in 1..Len(list) :
             /\ list[i] = name
             /\ \A j \in 1..(i - 1) : list[j] # name
    ELSE 0

\* RemoveAt cutting the list at the index: everything after it is lost too
RemoveAt_Truncate(list, index) == SubSeq(list, 1, index - 1)

\* append(list[:index], list[index+1:]...) with index counted from 1
RemoveAt(list, index) ==
    SubSeq(list, 1, index - 1) \o SubSeq(list, index + 1, Len(list))

\* AddPackage without the search for the name
AddPackage_NoFoundCheck(cfg, f, pack, io) ==
    LET c1 == [cfg EXCEPT !.Packages = Append(@, pack)]
        err == Validate(c1)
    IN  IF err # nil THEN Returned(c1, f, err, TRUE)
        ELSE ReturnedSave(c1, Save(c1, f, io))

\* AddPackage saving before it validates
AddPackage_SaveFirst(cfg, f, pack, io) ==
    LET found == IndexOf(cfg.Packages, pack) # 0
        c1 == [cfg EXCEPT !.Packages = Append(@, pack)]
        s == Save(c1, f, io)
        err == Validate(c1)
    IN  IF found THEN Returned(cfg, f, nil, FALSE)
        ELSE IF s.ret # nil THEN ReturnedSave(c1, s)
        ELSE ReturnedSave(c1, [s EXCEPT !.ret = err])

\* Config.AddPackage (lines 136-153)
AddPackage(cfg, f, pack, io) ==
    LET found == IndexOf(cfg.Packages, pack) # 0
        c1 == [cfg EXCEPT !.Packages = Append(@, pack)]
        err == Validate(c1)
    IN  IF found THEN Returned(cfg, f, nil, FALSE)
        ELSE IF err # nil THEN Returned(c1, f, err, TRUE)
        ELSE ReturnedSave(c1, Save(c1, f, io))

\* RemovePackage validating and saving also when the name is not found
RemovePackage_NoEarlyReturn(cfg, f, pack, io) ==
    LET index == IndexOf(cfg.Packages, pack)
        c1 == IF index # 0 THEN [cfg EXCEPT !.Packages = RemoveAt(@, index)] ELSE cfg
        err == Validate(c1)
    IN  IF err # nil THEN Returned(c1, f, err, TRUE)
        ELSE ReturnedSave(c1, Save(c1, f, io))

\* Config.RemovePackage (lines 154-174)
RemovePackage(cfg, f, pack, io) ==
    LET index == IndexOf(cfg.Packages, pack)
        c1 == [cfg EXCEPT !.Packages = RemoveAt(@, index)]
        err == Validate(c1)
    IN  IF index = 0 THEN Returned(cfg, f, ErrPackageNotFound, FALSE)
        ELSE IF err # nil THEN Returned(c1, f, err, TRUE)
        ELSE ReturnedSave(c1, Save(c1, f, io))

\* Config.RemoveProgram (lines 175-195)
RemoveProgram(cfg, f, prog, io) ==
    LET index == IndexOf(cfg.Programs, prog)
        c1 == [cfg EXCEPT !.Programs = RemoveAt(@, index)]
        err == Validate(c1)
    IN  IF index = 0 THEN Returned(cfg, f, ErrProgramNotFound, FALSE)
        ELSE IF err # nil THEN Returned(c1, f, err, TRUE)
        ELSE ReturnedSave(c1, Save(c1, f, io))

\* AddProgram searching for the name first, as AddPackage does
AddProgram_Idempotent(cfg, f, prog, io) ==
    LET found == IndexOf(cfg.Programs, prog) # 0
        c1 == [cfg EXCEPT !.Programs = Append(@, prog)]
        err == Validate(c1)
    IN  IF found THEN Returned(cfg, f, nil, FALSE)
        ELSE IF err # nil THEN Returned(c1, f, err, TRUE)
        ELSE ReturnedSave(c1, Save(c1, f, io))

\* AddProgram appending the name to the package list
AddProgram_IntoPackages(cfg, f, prog, io) ==
    LET c1 == [cfg EXCEPT !.Packages = Append(@, prog)]
        err == Validate(c1)
    IN  IF err # nil THEN Returned(c1, f, err, TRUE)
        ELSE ReturnedSave(c1, Save(c1, f, io))

\* Config.AddProgram (lines 196-203)
AddProgram(cfg, f, prog, io) ==
    LET c1 == [cfg EXCEPT !.Programs = Append(@, prog)]
        err == Validate(c1)
    IN  IF err # nil THEN Returned(c1, f, err, TRUE)
        ELSE ReturnedSave(c1, Save(c1, f, io))

----------------------------------------------------------------------------
(* The Configs the model starts from *)

\* a System as NewSystem builds it (lines 78-87), on a host of the given
\* architecture and OS
NewSystem(arch, os) ==
    [Hostname |-> "host", Username |-> "jane", Arch |-> arch, OS |-> os,
     GitConfig |-> [Name |-> "Jane Doe", Email |-> "jane@example.com"]]

\* the Config of WriteSampleConfig (lines 288-306) with the given lists
SampleConfig(packages, programs, systems) ==
    [FlakeDir |-> ".local/share/fleek", Unfree |-> TRUE, Shell |-> "bash",
     Bling |-> "default", Repository |-> "", Name |-> "My Fleek Configuration",
     Packages |-> packages, Programs |-> programs,
     Aliases |-> {[name |-> "cdfleek", cmd |-> "cd ~/.config/home-manager"]},
     Paths |-> <<"$HOME/bin", "$HOME/.local/bin">>,
     Ejected |-> FALSE, Systems |-> systems]

\* the names the operations are called with
PackageNames == {"helix", "htop"}
ProgramNames == {"dircolors", "starship"}

\* the package and program lists a Config starts with: no duplicates
InitPackages == {<<"helix">>}
InitPrograms == {<<"dircolors">>}

\* the shells and Systems a Config starts with: valid ones, and ones Validate
\* rejects (a hand-edited file)
InitShells == {"bash", "fish"}
InitSystems == {<<NewSystem("x86_64", "linux")>>, <<NewSystem("x86_64", "plan9")>>}

InitConfigs ==
    {[SampleConfig(pk, pg, sy) EXCEPT !.Shell = sh] :
        pk \in InitPackages, pg \in InitPrograms, sy \in InitSystems,
        sh \in InitShells}

\* the values of the fields Validate reads, inside and outside the lists
FlakeDirInputs == {"", ".local/share/fleek"}
ShellInputs == {"bash", "zsh", "fish"}
BlingInputs == {"low", "default", "high", "none"}
ArchInputs == {"aarch64", "x86_64", "riscv64"}
OSInputs == {"linux", "darwin", "plan9"}

SystemInputs == {NewSystem(a, o) : a \in ArchInputs, o \in OSInputs}

RECURSIVE SeqsUpTo(_, _)
\* the sequences over S of length at most n
SeqsUpTo(S, n) ==
    IF n = 0 THEN {<<>>}
    ELSE LET shorter == SeqsUpTo(S, n - 1)
         IN  shorter \cup {Append(q, x) : q \in shorter, x \in S}

ValidateInputs ==
    {[SampleConfig(<<"helix">>, <<"dircolors">>, sy)
        EXCEPT !.FlakeDir = fd, !.Shell = sh, !.Bling = bl] :
        fd \in FlakeDirInputs, sh \in ShellInputs, bl \in BlingInputs,
        sy \in SeqsUpTo(SystemInputs, MaxSystems)}

----------------------------------------------------------------------------
(* Eject, WriteSampleConfig, Clone and ReadConfig *)

\* Eject running Validate before it writes, as the mutation operations do
Eject_Validates(cfg, f, io) ==
    LET c1 == [cfg EXCEPT !.Ejected = TRUE]
        err == Validate(c1)
    IN  IF io = "location_err" THEN Returned(c1, f, "ErrLocation", FALSE)
        ELSE IF err # nil THEN Returned(c1, f, err, TRUE)
        ELSE IF io = "create_err" THEN Returned(c1, f, "ErrWriteFile", TRUE)
        ELSE IF io = "write_err"
        THEN [Returned(c1, TruncatedFile, "ErrWriteFile", TRUE) EXCEPT !.created = TRUE]
        ELSE [Returned(c1, WrittenFile(MarshalMap(UnmarshalMap(MarshalConfig(c1)))),
                       nil, TRUE)
                EXCEPT !.created = TRUE, !.wrote = TRUE]

\* Eject taking the flag back when it could not write the file
Eject_RollsBack(cfg, f, io) ==
    LET c1 == [cfg EXCEPT !.Ejected = TRUE]
        c0 == [cfg EXCEPT !.Ejected = FALSE]
    IN  IF io = "location_err" THEN Returned(c0, f, "ErrLocation", FALSE)
        ELSE IF io = "create_err" THEN Returned(c0, f, "ErrWriteFile", FALSE)
        ELSE IF io = "write_err"
        THEN [Returned(c0, TruncatedFile, "ErrWriteFile", FALSE) EXCEPT !.created = TRUE]
        ELSE [Returned(c1, WrittenFile(MarshalMap(UnmarshalMap(MarshalConfig(c1)))),
                       nil, FALSE)
                EXCEPT !.created = TRUE, !.wrote = TRUE]

\* Config.Eject (lines 365-394): c.Ejected = true, Location, Marshal,
\* Unmarshal into a map, Marshal again, os.WriteFile; no call of Validate.
\* os.WriteFile opens the file with O_CREATE|O_TRUNC ("create_err" when that
\* fails) and writes it ("write_err" when that fails)
Eject(cfg, f, io) ==
    LET c1 == [cfg EXCEPT !.Ejected = TRUE]
    IN  IF io = "location_err" THEN Returned(c1, f, "ErrLocation", FALSE)
        ELSE IF io = "create_err" THEN Returned(c1, f, "ErrWriteFile", FALSE)
        ELSE IF io = "write_err"
        THEN [Returned(c1, TruncatedFile, "ErrWriteFile", FALSE) EXCEPT !.created = TRUE]
        ELSE [Returned(c1, WrittenFile(MarshalMap(UnmarshalMap(MarshalConfig(c1)))),
                       nil, FALSE)
                EXCEPT !.created = TRUE, !.wrote = TRUE]

\* what the host and the file system do during one call of WriteSampleConfig
BootstrapOutcomes ==
    {"ok", "identity_err", "location_err", "mkdir_err", "create_err", "write_err"}

\* the outcomes in which WriteSampleConfig returns before it looks at the file
SetupFailures == {"identity_err", "location_err", "mkdir_err"}

\* the error WriteSampleConfig returns for each of them (lines 283-317)
SetupError(io) ==
    IF io = "identity_err" THEN "ErrNewSystem"
    ELSE IF io = "location_err" THEN "ErrLocation"
    ELSE "ErrMakeFlakeDir"

\* errors.New("cowardly refusing to overwrite config file ...") (line 358)
ErrRefuseOverwrite == "ErrRefuseOverwrite"

\* the architecture and OS of the host WriteSampleConfig runs on
HostArch == "x86_64"
HostOS == "linux"

\* the Config WriteSampleConfig builds (lines 288-306)
DefaultConfig(location) ==
    [SampleConfig(<<"helix">>, <<"dircolors">>, <<NewSystem(HostArch, HostOS)>>)
        EXCEPT !.FlakeDir = location]

\* a return of WriteSampleConfig that left files and symlink as they were
Refused(dsk, lnk, err) ==
    [disk |-> dsk, link |-> lnk, ret |-> err, created |-> FALSE,
     wrote |-> FALSE, linked |-> FALSE]

\* WriteSampleConfig taking every call as a forced one
WriteSampleConfig_AlwaysForce(dsk, lnk, location, force, io) ==
    LET cfg == DefaultConfig(location)
        cfile == Resolve(lnk, Location(cfg))
        written == [dsk EXCEPT ![cfile] =
                       WrittenFile(MarshalMap(UnmarshalMap(MarshalConfig(cfg))))]
        sym == Symlink(written, lnk, Location(cfg))
    IN  IF io \in SetupFailures THEN Refused(dsk, lnk, SetupError(io))
        ELSE IF io = "create_err" THEN Refused(dsk, lnk, "ErrCreate")
        ELSE IF io = "write_err"
        THEN [Refused([dsk EXCEPT ![cfile] = TruncatedFile], lnk, "ErrWrite")
                EXCEPT !.created = TRUE]
        ELSE [disk |-> written, link |-> sym.link, ret |-> sym.ret,
              created |-> TRUE, wrote |-> TRUE, linked |-> sym.linked]

\* WriteSampleConfig (lines 278-361): NewSystem, the Config, Location,
\* MakeFlakeDir, os.Stat; when force is set or the file does not exist:
\* os.Create, the two Marshals, WriteString and os.Symlink, whose error is
\* returned; else the refusal
WriteSampleConfig(dsk, lnk, location, force, io) ==
    LET cfg == DefaultConfig(location)
        cfile == Resolve(lnk, Location(cfg))
        notExist == dsk[cfile].state = "absent"
        written == [dsk EXCEPT ![cfile] =
                       WrittenFile(MarshalMap(UnmarshalMap(MarshalConfig(cfg))))]
        sym == Symlink(written, lnk, Location(cfg))
    IN  IF io \in SetupFailures THEN Refused(dsk, lnk, SetupError(io))
        ELSE IF ~(force \/ notExist) THEN Refused(dsk, lnk, ErrRefuseOverwrite)
        ELSE IF io = "create_err" THEN Refused(dsk, lnk, "ErrCreate")
        ELSE IF io = "write_err"
        THEN [Refused([dsk EXCEPT ![cfile] = TruncatedFile], lnk, "ErrWrite")
                EXCEPT !.created = TRUE]
        ELSE [disk |-> written, link |-> sym.link, ret |-> sym.ret,
              created |-> TRUE, wrote |-> TRUE, linked |-> sym.linked]

\* what `git clone` does during one call of Clone
CloneOutcomes == {"ok", "clone_err"}

\* the Config of the .fleek.yml in the repository that is cloned: one saved
\* on another host, from the default flake directory
RepoConfig ==
    [SampleConfig(<<"htop">>, <<"dircolors">>, <<NewSystem(HostArch, HostOS)>>)
        EXCEPT !.Repository = "git@example.com:jane/fleek"]

\* git clone writes into a directory that does not exist or is empty: one
\* under $HOME that holds no .fleek.yml
CanClone(dsk, dir) == dir \in FlakeDirs /\ dsk[dir].state = "absent"

\* Clone making the symlink before it runs git clone
Clone_LinkFirst(cfg, dsk, lnk, io) ==
    LET dir == UserFlakeDir(cfg)
        sym == Symlink(dsk, lnk, dir)
        cloned == [dsk EXCEPT ![dir] =
                      WrittenFile(MarshalMap(UnmarshalMap(MarshalConfig(RepoConfig))))]
    IN  IF io = "clone_err" \/ ~CanClone(dsk, dir)
        THEN [disk |-> dsk, link |-> sym.link, ret |-> "ErrClone",
              created |-> FALSE, wrote |-> FALSE, linked |-> sym.linked]
        ELSE [disk |-> cloned, link |-> sym.link, ret |-> sym.ret,
              created |-> TRUE, wrote |-> TRUE, linked |-> sym.linked]

\* Config.Clone (lines 256-276): git clone into UserFlakeDir, its error
\* returned at once; then os.Symlink(<UserFlakeDir>/.fleek.yml,
\* $HOME/.fleek.yml), whose error is returned
Clone(cfg, dsk, lnk, io) ==
    LET dir == UserFlakeDir(cfg)
        cloned == [dsk EXCEPT ![dir] =
                      WrittenFile(MarshalMap(UnmarshalMap(MarshalConfig(RepoConfig))))]
        sym == Symlink(cloned, lnk, dir)
    IN  IF io = "clone_err" \/ ~CanClone(dsk, dir)
        THEN Refused(dsk, lnk, "ErrClone")
        ELSE [disk |-> cloned, link |-> sym.link, ret |-> sym.ret,
              created |-> TRUE, wrote |-> TRUE, linked |-> sym.linked]

\* what the host does during one call of ReadConfig
ReadOutcomes == {"ok", "home_err"}

\* ReadConfig (lines 238-254): os.ReadFile of $HOME/.fleek.yml, the symlink
\* followed, and yaml.Unmarshal into a new Config; with an error the Config
\* returned is the empty one
ReadConfig(dsk, lnk, io) ==
    LET f == dsk[Resolve(lnk, "")]
    IN  IF io = "home_err" THEN [c |-> ZeroConfig, ret |-> "ErrUserHomeDir"]
        ELSE IF f.state = "absent" THEN [c |-> ZeroConfig, ret |-> "ErrReadFile"]
        ELSE [c |-> UnmarshalConfig(f.doc), ret |-> nil]

----------------------------------------------------------------------------
(* State machine *)

\* the record of a call: what was called with what, what it returned, and
\* whether it called Validate and Save and created and wrote the file
Trace(op, arg, r) ==
    [op |-> op, arg |-> arg, ret |-> r.ret, validated |-> r.validated,
     saved |-> r.saved, created |-> r.created, wrote |-> r.wrote]

NoCall == Trace("none", "", Returned(c, file, nil, FALSE))

\* a Config in memory, read from its file (which may have been edited by
\* hand into one Validate rejects) through the symlink of the bootstrap
Init ==
    /\ c \in InitConfigs
    /\ link = c.FlakeDir
    /\ disk = [d \in Dirs |->
                 IF d = c.FlakeDir
                 THEN WrittenFile(MarshalMap(UnmarshalMap(MarshalConfig(c))))
                 ELSE AbsentFile]
    /\ last = NoCall

InitValidate ==
    /\ c \in ValidateInputs
    /\ link = NoLink
    /\ disk = [d \in Dirs |-> AbsentFile]
    /\ last = NoCall

ValidateOp ==
    LET r == Returned(c, file, Validate(c), TRUE)
    IN  /\ c' = r.c
        /\ disk' = DiskWith(r.file)
        /\ link' = link
        /\ last' = Trace("Validate", "", r)

AddPackageOp ==
    \E pack \in PackageNames, io \in IOOutcomes :
        LET r == AddPackage(c, file, pack, io)
        IN  /\ Len(r.c.Packages) <= MaxLen
            /\ c' = r.c
            /\ disk' = DiskWith(r.file)
            /\ link' = link
            /\ last' = Trace("AddPackage", pack, r)

RemovePackageOp ==
    \E pack \in PackageNames, io \in IOOutcomes :
        LET r == RemovePackage(c, file, pack, io)
        IN  /\ c' = r.c
            /\ disk' = DiskWith(r.file)
            /\ link' = link
            /\ last' = Trace("RemovePackage", pack, r)

AddProgramOp ==
    \E prog \in ProgramNames, io \in IOOutcomes :
        LET r == AddProgram(c, file, prog, io)
        IN  /\ Len(r.c.Programs) <= MaxLen
            /\ c' = r.c
            /\ disk' = DiskWith(r.file)
            /\ link' = link
            /\ last' = Trace("AddProgram", prog, r)

RemoveProgramOp ==
    \E prog \in ProgramNames, io \in IOOutcomes :
        LET r == RemoveProgram(c, file, prog, io)
        IN  /\ c' = r.c
            /\ disk' = DiskWith(r.file)
            /\ link' = link
            /\ last' = Trace("RemoveProgram", prog, r)

Next ==
    \/ ValidateOp
    \/ AddPackageOp
    \/ RemovePackageOp
    \/ AddProgramOp
    \/ RemoveProgramOp

Spec == Init /\ [][Next]_vars

NextValidate == ValidateOp

SpecValidate == InitValidate /\ [][NextValidate]_vars

\* the record of a call of WriteSampleConfig or Clone: the directory and the
\* force flag it was called with, what it returned, and whether it created
\* and wrote a file and made the symlink
FileTrace(op, arg, force, r) ==
    [op |-> op, arg |-> arg, force |-> force, ret |-> r.ret,
     validated |-> FALSE, saved |-> FALSE, created |-> r.created,
     wrote |-> r.wrote, linked |-> r.linked]

\* a call of Save by the caller itself
SaveOp ==
    \E io \in IOOutcomes :
        LET r == [ReturnedSave(c, Save(c, file, io)) EXCEPT !.validated = FALSE]
        IN  /\ c' = r.c
            /\ disk' = DiskWith(r.file)
            /\ link' = link
            /\ last' = Trace("Save", "", r)

EjectOp ==
    \E io \in IOOutcomes :
        LET r == Eject(c, file, io)
        IN  /\ c' = r.c
            /\ disk' = DiskWith(r.file)
            /\ link' = link
            /\ last' = Trace("Eject", "", r)

\* WriteSampleConfig builds a Config of its own: the one in memory stays
WriteSampleConfigOp ==
    \E location \in FlakeDirs, force \in BOOLEAN, io \in BootstrapOutcomes :
        LET r == WriteSampleConfig(disk, link, location, force, io)
        IN  /\ c' = c
            /\ disk' = r.disk
            /\ link' = r.link
            /\ last' = FileTrace("WriteSampleConfig", location, force, r)

CloneOp ==
    \E io \in CloneOutcomes :
        LET r == Clone(c, disk, link, io)
        IN  /\ c' = c
            /\ disk' = r.disk
            /\ link' = r.link
            /\ last' = FileTrace("Clone", UserFlakeDir(c), FALSE, r)

\* the caller goes on with the Config ReadConfig returned, unless ReadConfig
\* returned an error
ReadConfigOp ==
    \E io \in ReadOutcomes :
        LET r == ReadConfig(disk, link, io)
        IN  /\ c' = IF r.ret = nil THEN r.c ELSE c
            /\ disk' = disk
            /\ link' = link
            /\ last' = Trace("ReadConfig", "", Returned(r.c, file, r.ret, FALSE))

\* a Config in memory, read from its file, with a short package list and no
\* program
InitEject ==
    /\ c \in {[SampleConfig(<<"helix">>, <<>>, <<NewSystem(HostArch, HostOS)>>)
                  EXCEPT !.Shell = sh] : sh \in InitShells}
    /\ link = c.FlakeDir
    /\ disk = [d \in Dirs |->
                 IF d = c.FlakeDir
                 THEN WrittenFile(MarshalMap(UnmarshalMap(MarshalConfig(c))))
                 ELSE AbsentFile]
    /\ last = NoCall

\* the bound of SpecEject on the two lists
FewNames == Len(c.Packages) + Len(c.Programs) <= MaxEjectNames

\* the mutation operations, Validate, Save and Eject
NextEject ==
    \/ ValidateOp
    \/ AddPackageOp /\ FewNames'
    \/ RemovePackageOp
    \/ AddProgramOp /\ FewNames'
    \/ RemoveProgramOp
    \/ SaveOp
    \/ EjectOp

SpecEject == InitEject /\ [][NextEject]_vars

\* a host before the bootstrap: no .fleek.yml, no symlink; the caller holds a
\* Config for one of the flake directories
InitFiles ==
    /\ c \in {DefaultConfig(d) : d \in FlakeDirs}
    /\ link = NoLink
    /\ disk = [d \in Dirs |-> AbsentFile]
    /\ last = NoCall

NextFiles ==
    \/ WriteSampleConfigOp
    \/ CloneOp
    \/ ReadConfigOp
    \/ RemovePackageOp
    \/ SaveOp
    \/ EjectOp

SpecFiles == InitFiles /\ [][NextFiles]_vars

----------------------------------------------------------------------------
(* Vocabulary of the properties *)

MutationOps == {"AddPackage", "RemovePackage", "AddProgram", "RemoveProgram"}

Contains(list, name) == \E i \in 1..Len(list) : list[i] = name

NoDuplicates(list) ==
    \A i, j \in 1..Len(list) : i # j => list[i] # list[j]

Count(list, name) == Cardinality({i \in 1..Len(list) : list[i] = name})

\* the enumerated sets of the specification
SpecShells == {"bash", "zsh"}
SpecBlingLevels == {"low", "default", "high"}
SpecArchitectures == {"aarch64", "x86_64"}
SpecOperatingSystems == {"linux", "darwin"}

GlobalsValid(cfg) ==
    /\ cfg.FlakeDir # ""
    /\ cfg.Shell \in SpecShells
    /\ cfg.Bling \in SpecBlingLevels

ValidConfig(cfg) ==
    /\ GlobalsValid(cfg)
    /\ \A i \in 1..Len(cfg.Systems) :
          /\ cfg.Systems[i].Arch \in SpecArchitectures
          /\ cfg.Systems[i].OS \in SpecOperatingSystems

\* reading the file gives the Config in memory
OnDisk == file.state = "written" /\ UnmarshalConfig(file.doc) = c

\* list with its element at index i taken out, the others in their order
IsRemovalAt(before, after, i) ==
    /\ Len(after) = Len(before) - 1
    /\ \A j \in 1..(i - 1) : after[j] = before[j]
    /\ \A j \in i..Len(after) : after[j] = before[j + 1]

----------------------------------------------------------------------------
(* C1: the order of Validate's checks *)

\* the rules in the order flakedir, shell, bling, then System by System the
\* architecture and the OS of each
RulesInOrder(cfg) ==
    <<[bad |-> cfg.FlakeDir = "", err |-> ErrMissingFlakeDir],
      [bad |-> cfg.Shell \notin SpecShells, err |-> ErrInvalidShell],
      [bad |-> cfg.Bling \notin SpecBlingLevels, err |-> ErrInvalidBling]>>
    \o [k \in 1..(2 * Len(cfg.Systems)) |->
          IF k % 2 = 1
          THEN [bad |-> cfg.Systems[(k + 1) \div 2].Arch \notin SpecArchitectures,
                err |-> ErrorInvalidArch]
          ELSE [bad |-> cfg.Systems[k \div 2].OS \notin SpecOperatingSystems,
                err |-> ErrInvalidOperatingSystem]]

FirstViolation(rules) ==
    IF \E k \in 1..Len(rules) : rules[k].bad
    THEN rules[CHOOSE k \in 1..Len(rules) :
                  rules[k].bad /\ \A j \in 1..(k - 1) : ~rules[j].bad].err
    ELSE nil

\* the error earliest in the order of the kinds flakedir, shell, bling,
\* architecture (of any System), OS (of any System)
FirstViolatedKind(cfg) ==
    IF cfg.FlakeDir = "" THEN ErrMissingFlakeDir
    ELSE IF cfg.Shell \notin SpecShells THEN ErrInvalidShell
    ELSE IF cfg.Bling \notin SpecBlingLevels THEN ErrInvalidBling
    ELSE IF \E i \in 1..Len(cfg.Systems) : cfg.Systems[i].Arch \notin SpecArchitectures
         THEN ErrorInvalidArch
    ELSE IF \E i \in 1..Len(cfg.Systems) : cfg.Systems[i].OS \notin SpecOperatingSystems
         THEN ErrInvalidOperatingSystem
    ELSE nil

\* C1 as stated: with several fields invalid at once, also across Systems,
\* Validate returns the error earliest in the order flakedir, shell, bling,
\* per-system architecture, per-system OS.
C1_ErrorEarliestByKind ==
    last.op = "Validate" => last.ret = FirstViolatedKind(c)

\* C1 as amended: Validate returns the first violated rule in the order
\* flakedir, shell, bling, then for each System in list order its
\* architecture and then its OS (an invalid OS of an earlier System comes
\* before an invalid architecture of a later one); no per-system error is
\* returned while a global rule is violated.
C1_FirstViolatedRuleSystemBySystem ==
    last.op = "Validate" =>
        /\ last.ret = FirstViolation(RulesInOrder(c))
        /\ last.ret \in {ErrorInvalidArch, ErrInvalidOperatingSystem} => GlobalsValid(c)

\* Validate returned the invalid OS of the first System although the second
\* System's architecture is invalid too
C1_Witness ==
    /\ last.op = "Validate"
    /\ GlobalsValid(c)
    /\ Len(c.Systems) = 2
    /\ c.Systems[1].Arch \in SpecArchitectures
    /\ c.Systems[1].OS \notin SpecOperatingSystems
    /\ c.Systems[2].Arch \notin SpecArchitectures
    /\ last.ret = ErrInvalidOperatingSystem

----------------------------------------------------------------------------
(* C2: what Validate accepts *)

\* C2: Validate returns OK exactly when the flake directory is non-empty, the
\* shell, the bling level and every System's architecture and OS are in their
\* enumerated sets (no System at all passes); otherwise it returns a
\* validation error.
C2_ValidateOkIffValid ==
    last.op = "Validate" =>
        /\ (last.ret = nil) <=> ValidConfig(c)
        /\ last.ret # nil => last.ret \in ValidationErrors

\* Validate accepted a Config with shell zsh and no System
C2_Witness ==
    /\ last.op = "Validate"
    /\ last.ret = nil
    /\ c.Shell = "zsh"
    /\ c.Systems = <<>>

----------------------------------------------------------------------------
(* C3: AddPackage is idempotent *)

\* a call of AddPackage with a name the list already holds returns success
\* and changes nothing: no Validate, no Save, the Config and the file as
\* they were
C3_PresentNameStep ==
    (last'.op = "AddPackage" /\ Contains(c.Packages, last'.arg)) =>
        /\ last'.ret = nil
        /\ c' = c
        /\ file' = file
        /\ ~last'.validated
        /\ ~last'.saved
        /\ ~last'.created

\* two calls with the same new name on a valid Config, whatever the I/O does:
\* one entry more than at the start
C3_TwiceAddsOne ==
    ValidConfig(c) =>
        \A pack \in PackageNames, io1, io2 \in IOOutcomes :
            ~Contains(c.Packages, pack) =>
                LET r1 == AddPackage(c, file, pack, io1)
                    r2 == AddPackage(r1.c, r1.file, pack, io2)
                IN  /\ Len(r2.c.Packages) = Len(c.Packages) + 1
                    /\ r2.c = r1.c
                    /\ r2.file = r1.file

\* C3: AddPackage with a name already in the package list returns success
\* without changing the list, validating or writing the file; AddPackage
\* twice with the same new name on a valid Config leaves the list exactly one
\* entry longer.
C3_AddPackageIdempotent ==
    []C3_TwiceAddsOne /\ [][C3_PresentNameStep]_vars

\* AddPackage returned at once for a name the list holds
C3_Witness ==
    /\ last.op = "AddPackage"
    /\ last.ret = nil
    /\ ~last.validated
    /\ ValidConfig(c)
    /\ Count(c.Packages, last.arg) = 1
    /\ Len(c.Packages) = 2

----------------------------------------------------------------------------
(* C4: a successful mutation is on disk *)

\* C4 as stated: after any mutation operation returns success the file on
\* disk equals the Config in memory, also after an earlier operation failed.
C4_SuccessMeansOnDisk ==
    (last.op \in MutationOps /\ last.ret = nil) => OnDisk

\* C4 as amended: after a mutation operation other than AddPackage with a
\* name the list already holds returns success, the file on disk equals the
\* Config in memory (AddPackage with a name already present returns success
\* without writing, so what an earlier failed call left in memory only is
\* still not on disk).
C4_SuccessPastEarlyReturnMeansOnDisk ==
    [][(/\ last'.op \in MutationOps
        /\ last'.ret = nil
        /\ ~(last'.op = "AddPackage" /\ Contains(c.Packages, last'.arg)))
       => (file'.state = "written" /\ UnmarshalConfig(file'.doc) = c')]_vars

\* a mutation succeeded right after a failed one, and the file holds the
\* Config in memory
C4_Witness ==
    /\ last.op = "RemoveProgram"
    /\ last.ret = nil
    /\ last.wrote
    /\ OnDisk
    /\ Contains(c.Packages, "htop")

----------------------------------------------------------------------------
(* C5: no duplicates *)

\* C5: in every reachable state the package list holds no name twice and the
\* program list holds no name twice.
C5_NoDuplicateNames ==
    NoDuplicates(c.Packages) /\ NoDuplicates(c.Programs)

----------------------------------------------------------------------------
(* C6: AddProgram appends unconditionally *)

\* every call of AddProgram appends the name, calls Validate, and calls Save
\* when Validate passed; when it returns success the file holds the Config
C6_AddProgramStep ==
    last'.op = "AddProgram" =>
        /\ c' = [c EXCEPT !.Programs = Append(c.Programs, last'.arg)]
        /\ last'.validated
        /\ last'.saved <=> ValidConfig(c)
        /\ last'.ret = nil => (file'.state = "written" /\ UnmarshalConfig(file'.doc) = c')
        /\ ~ValidConfig(c) => last'.ret \in ValidationErrors

\* two calls with the same name on a valid Config: two more entries of it
C6_TwiceAddsTwo ==
    ValidConfig(c) =>
        \A prog \in ProgramNames, io1, io2 \in IOOutcomes :
            LET r1 == AddProgram(c, file, prog, io1)
                r2 == AddProgram(r1.c, r1.file, prog, io2)
            IN  /\ r2.c.Programs = c.Programs \o <<prog, prog>>
                /\ Count(r2.c.Programs, prog) = Count(c.Programs, prog) + 2
                /\ r1.validated /\ r1.saved
                /\ r2.validated /\ r2.saved

\* C6: AddProgram appends unconditionally: twice with the same name on a
\* valid Config gives two entries of that name, and each call validates and
\* then persists.
C6_AddProgramAppends ==
    []C6_TwiceAddsTwo /\ [][C6_AddProgramStep]_vars

\* AddProgram succeeded and the list, in memory and on disk, holds its name
\* twice
C6_Witness ==
    /\ last.op = "AddProgram"
    /\ last.ret = nil
    /\ last.validated
    /\ last.wrote
    /\ Count(c.Programs, last.arg) = 2
    /\ OnDisk

----------------------------------------------------------------------------
(* C7: removing a name that is not there *)

C7_AbsentNameStep ==
    /\ (last'.op = "RemovePackage" /\ ~Contains(c.Packages, last'.arg)) =>
          /\ last'.ret = ErrPackageNotFound
          /\ c' = c
          /\ file' = file
          /\ ~last'.validated /\ ~last'.saved /\ ~last'.created
    /\ (last'.op = "RemoveProgram" /\ ~Contains(c.Programs, last'.arg)) =>
          /\ last'.ret = ErrProgramNotFound
          /\ c' = c
          /\ file' = file
          /\ ~last'.validated /\ ~last'.saved /\ ~last'.created

\* C7: RemovePackage (RemoveProgram) with a name that is not in the list
\* returns ErrPackageNotFound (ErrProgramNotFound), leaves the list in memory
\* unchanged, and neither validates nor writes the file.
C7_RemoveAbsentNotFound ==
    [][C7_AbsentNameStep]_vars

\* RemovePackage returned ErrPackageNotFound on a valid Config that holds
\* another package
C7_Witness ==
    /\ last.op = "RemovePackage"
    /\ last.ret = ErrPackageNotFound
    /\ ~Contains(c.Packages, last.arg)
    /\ Len(c.Packages) = 1
    /\ ValidConfig(c)

----------------------------------------------------------------------------
(* C8: removing a name that is there *)

\* the step of a Remove call on a list that holds the name: one entry of that
\* name is taken out, the others keep their order, nothing else of the Config
\* changes; Validate is called, Save is called when Validate passed, and on
\* success the file holds the Config
RemovedOne(before, after, name) ==
    \E i \in 1..Len(before) : before[i] = name /\ IsRemovalAt(before, after, i)

C8_PresentNameStep ==
    /\ (last'.op = "RemovePackage" /\ Contains(c.Packages, last'.arg)) =>
          /\ RemovedOne(c.Packages, c'.Packages, last'.arg)
          /\ c' = [c EXCEPT !.Packages = c'.Packages]
          /\ NoDuplicates(c.Packages) =>
                /\ ~Contains(c'.Packages, last'.arg)
                /\ Len(c'.Packages) = Len(c.Packages) - 1
    /\ (last'.op = "RemoveProgram" /\ Contains(c.Programs, last'.arg)) =>
          /\ RemovedOne(c.Programs, c'.Programs, last'.arg)
          /\ c' = [c EXCEPT !.Programs = c'.Programs]
          /\ NoDuplicates(c.Programs) =>
                /\ ~Contains(c'.Programs, last'.arg)
                /\ Len(c'.Programs) = Len(c.Programs) - 1
    /\ (\/ last'.op = "RemovePackage" /\ Contains(c.Packages, last'.arg)
        \/ last'.op = "RemoveProgram" /\ Contains(c.Programs, last'.arg)) =>
          /\ last'.validated
          /\ last'.saved <=> ValidConfig(c)
          /\ last'.ret = nil => (file'.state = "written" /\ UnmarshalConfig(file'.doc) = c')
          /\ ~ValidConfig(c) => last'.ret \in ValidationErrors

----------------------------------------------------------------------------
(* C9: no rollback *)

\* the call got to Validate or Save and that step failed
FailedPastEarlyReturn(ret) ==
    ret \notin {nil, ErrPackageNotFound, ErrProgramNotFound}

\* C9 as stated: a mutation operation whose validation or persistence step
\* fails returns that error and does not roll back: after the failing call
\* the list in memory still contains the appended name, or still lacks the
\* removed name.
C9_FailedCallKeepsNameAddedOrGone ==
    [][(last'.op \in MutationOps /\ FailedPastEarlyReturn(last'.ret)) =>
          /\ last'.op = "AddPackage" => Contains(c'.Packages, last'.arg)
          /\ last'.op = "AddProgram" => Contains(c'.Programs, last'.arg)
          /\ last'.op = "RemovePackage" => ~Contains(c'.Packages, last'.arg)
          /\ last'.op = "RemoveProgram" => ~Contains(c'.Programs, last'.arg)]_vars

\* what does hold of a failing call: the entry it appended, or the one entry
\* it took out, is not put back
C9_FailedCallKeepsMutation ==
    [][(last'.op \in MutationOps /\ FailedPastEarlyReturn(last'.ret)) =>
          /\ last'.op = "AddPackage" => c'.Packages = Append(c.Packages, last'.arg)
          /\ last'.op = "AddProgram" => c'.Programs = Append(c.Programs, last'.arg)
          /\ last'.op = "RemovePackage" => RemovedOne(c.Packages, c'.Packages, last'.arg)
          /\ last'.op = "RemoveProgram" => RemovedOne(c.Programs, c'.Programs, last'.arg)]_vars

----------------------------------------------------------------------------
(* C10: validation comes before the file is touched *)

\* the call returns before it reaches Validate
ReturnsEarly(op, arg, cfg) ==
    \/ op = "AddPackage" /\ Contains(cfg.Packages, arg)
    \/ op = "RemovePackage" /\ ~Contains(cfg.Packages, arg)
    \/ op = "RemoveProgram" /\ ~Contains(cfg.Programs, arg)

\* C10 as stated: a mutation operation on a Config that fails validation
\* returns the validation error and leaves the file on disk unchanged.
C10_InvalidConfigBlocked ==
    [][(last'.op \in MutationOps /\ ~ValidConfig(c)) =>
          /\ last'.ret \in ValidationErrors
          /\ file' = file]_vars

\* C10 as amended: a mutation operation on a Config that fails validation
\* never creates or writes the file; unless it returns before its validation
\* step (AddPackage with a name already present returns success, a Remove
\* with an absent name returns its NotFound error), it returns the validation
\* error.
C10_InvalidConfigNeverWritten ==
    [][(last'.op \in MutationOps /\ ~ValidConfig(c)) =>
          /\ file' = file
          /\ ~last'.saved /\ ~last'.created /\ ~last'.wrote
          /\ ~ValidConfig(c')
          /\ IF ReturnsEarly(last'.op, last'.arg, c)
             THEN last'.ret \in {nil, ErrPackageNotFound, ErrProgramNotFound}
             ELSE last'.ret \in ValidationErrors]_vars

\* AddPackage with a new name on a Config with an invalid shell returned
\* ErrInvalidShell; the file still holds a Config without that name
C10_Witness ==
    /\ last.op = "AddPackage"
    /\ last.ret = ErrInvalidShell
    /\ c.Shell \notin SpecShells
    /\ Contains(c.Packages, last.arg)
    /\ file.state = "written"
    /\ ~Contains(UnmarshalConfig(file.doc).Packages, last.arg)

----------------------------------------------------------------------------
(* C11: Eject writes without validating *)

\* the errors of Location and os.WriteFile, the only ones Eject returns
EjectIOErrors == {"ErrLocation", "ErrWriteFile"}

\* Eject of the Config in memory succeeds whenever Location and os.WriteFile
\* do, whether Validate accepts the Config or not, and the file it writes
\* reads back as the Config with Ejected set
C11_EjectSucceedsWhenIOSucceeds ==
    LET r == Eject(c, file, "ok")
    IN  /\ r.ret = nil
        /\ r.c = [c EXCEPT !.Ejected = TRUE]
        /\ r.file.state = "written"
        /\ UnmarshalConfig(r.file.doc) = r.c

\* a call of Eject sets Ejected, changes no other field, does not call
\* Validate and returns no error but one of Location or os.WriteFile; when it
\* returns success the file holds the Config, with ejected = true
C11_EjectStep ==
    last'.op = "Eject" =>
        /\ c' = [c EXCEPT !.Ejected = TRUE]
        /\ ~last'.validated
        /\ last'.ret \in {nil} \cup EjectIOErrors
        /\ last'.ret = nil =>
              /\ file'.state = "written"
              /\ UnmarshalConfig(file'.doc) = c'
              /\ UnmarshalConfig(file'.doc).Ejected

\* C11: Eject sets Ejected to true and writes the serialized Config to the
\* canonical location without running validation: given that Location and
\* the write succeed it succeeds also on a Config Validate rejects, and the
\* file then has ejected = true.
C11_EjectWritesUnvalidated ==
    []C11_EjectSucceedsWhenIOSucceeds /\ [][C11_EjectStep]_vars

\* Eject returned success on a Config with an invalid shell, and the file
\* holds that Config with ejected = true
C11_Witness ==
    /\ last.op = "Eject"
    /\ last.ret = nil
    /\ Validate(c) = ErrInvalidShell
    /\ file.state = "written"
    /\ UnmarshalConfig(file.doc).Ejected
    /\ UnmarshalConfig(file.doc).Shell = c.Shell

----------------------------------------------------------------------------
(* C12: Ejected is one-way *)

\* C12: once Ejected is true in the Config in memory, no call of Eject,
\* AddPackage, RemovePackage, AddProgram, RemoveProgram, Save or Validate,
\* successful or not, sets it back to false.
C12_EjectedStaysSet ==
    [][c.Ejected => c'.Ejected]_vars

\* the Config was ejected and a mutation operation then changed and saved it
C12_Witness ==
    /\ c.Ejected
    /\ last.op \in MutationOps
    /\ last.ret = nil
    /\ last.wrote
    /\ UnmarshalConfig(file.doc).Ejected

----------------------------------------------------------------------------
(* C13: WriteSampleConfig without force does not overwrite *)

\* the errors WriteSampleConfig returns before it looks at the file
SetupErrors == {SetupError(io) : io \in SetupFailures}

\* whatever the files and the symlink are, WriteSampleConfig without force
\* for a directory that holds a .fleek.yml leaves the files and the symlink
\* as they are; it returns the refusal, or the error of NewSystem, Location
\* or MakeFlakeDir when one of these fails first
C13_RefusesInEveryState ==
    \A location \in FlakeDirs, io \in BootstrapOutcomes :
        disk[location].state # "absent" =>
            LET r == WriteSampleConfig(disk, link, location, FALSE, io)
            IN  /\ r.disk = disk
                /\ r.link = link
                /\ r.ret = IF io \in SetupFailures THEN SetupError(io)
                           ELSE ErrRefuseOverwrite

\* a call of WriteSampleConfig without force for a directory that holds a
\* .fleek.yml changes no file and not the symlink
C13_RefusalStep ==
    (/\ last'.op = "WriteSampleConfig"
     /\ ~last'.force
     /\ disk[last'.arg].state # "absent") =>
        /\ disk' = disk
        /\ link' = link
        /\ ~last'.created /\ ~last'.wrote /\ ~last'.linked
        /\ last'.ret \in {ErrRefuseOverwrite} \cup SetupErrors

\* C13: WriteSampleConfig called with force=false while a file exists at the
\* canonical location returns the refuse-to-overwrite error (when NewSystem,
\* Location and MakeFlakeDir, which run before the file is looked at, do not
\* fail), leaves that file's content unchanged, and does not create or change
\* the home symlink.
C13_NoForceNoOverwrite ==
    []C13_RefusesInEveryState /\ [][C13_RefusalStep]_vars

\* WriteSampleConfig without force was refused for a directory whose
\* .fleek.yml is a complete file other than the default one, with no home
\* symlink before or after
C13_Witness ==
    /\ last.op = "WriteSampleConfig"
    /\ ~last.force
    /\ last.ret = ErrRefuseOverwrite
    /\ disk[last.arg].state = "written"
    /\ UnmarshalConfig(disk[last.arg].doc) # DefaultConfig(last.arg)
    /\ link = NoLink

----------------------------------------------------------------------------
(* C14: WriteSampleConfig over an earlier bootstrap *)

\* C14 as stated: whenever the target file is absent or force is set, and
\* NewSystem, Location, MakeFlakeDir and the writing of the file succeed,
\* WriteSampleConfig returns success with the default configuration in the
\* file and the symlink $HOME/.fleek.yml pointing to it, whatever file and
\* symlink were there before.
C14_BootstrapEndsInSuccess ==
    [][(/\ last'.op = "WriteSampleConfig"
        /\ last'.force \/ disk[last'.arg].state = "absent"
        /\ last'.created /\ last'.wrote) =>
          /\ last'.ret = nil
          /\ disk'[last'.arg].state = "written"
          /\ UnmarshalConfig(disk'[last'.arg].doc) = DefaultConfig(last'.arg)
          /\ link' = last'.arg]_vars

----------------------------------------------------------------------------
(* C15 and C16: Clone and the home symlink *)

\* C15 as stated: whenever git clone succeeds, after Clone the symlink
\* $HOME/.fleek.yml points at .fleek.yml in the cloned flake directory,
\* whether or not there was a symlink before.
C15_CloneReplacesSymlink ==
    [][(last'.op = "Clone" /\ last'.created) => link' = last'.arg]_vars

\* whatever the files and the symlink are, Clone with a failing git clone
\* returns the error of git clone and leaves files and symlink as they are
C16_FailedCloneInEveryState ==
    LET r == Clone(c, disk, link, "clone_err")
    IN  r.ret = "ErrClone" /\ r.link = link /\ r.disk = disk /\ ~r.linked

\* a call of Clone that returns the error of git clone has made no symlink
\* and changed none
C16_FailedCloneStep ==
    (last'.op = "Clone" /\ last'.ret = "ErrClone") =>
        /\ link' = link
        /\ ~last'.linked
        /\ disk' = disk

\* C16: if git clone fails, Clone returns that error before any symlink
\* operation: the home symlink is as it was before the call, absent or with
\* the same target.
C16_FailedCloneKeepsSymlink ==
    []C16_FailedCloneInEveryState /\ [][C16_FailedCloneStep]_vars

\* Clone for one flake directory failed while the symlink of an earlier
\* bootstrap points into the other
C16_Witness ==
    /\ last.op = "Clone"
    /\ last.ret = "ErrClone"
    /\ link \in FlakeDirs
    /\ link # last.arg
    /\ disk[link].state = "written"

----------------------------------------------------------------------------
(* C17: Save and ReadConfig *)

\* C17 as stated: in a state with a home symlink, right after a successful
\* Save (called by the caller or by a mutation operation) ReadConfig, when it
\* can resolve $HOME, returns without error a Config equal to the saved one.
C17_ReadConfigReturnsSaved ==
    [][(/\ last.saved /\ last.ret = nil
        /\ link # NoLink
        /\ last'.op = "ReadConfig"
        /\ last'.ret # "ErrUserHomeDir") =>
          /\ last'.ret = nil
          /\ c' = c]_vars

----------------------------------------------------------------------------
(* C18: the style of the lists in the files written *)

\* the keys that hold a list
ListKeys == {"packages", "programs", "paths", "systems"}

\* the operations that write the file with the two Marshals
WritingOps == MutationOps \cup {"Save", "Eject", "WriteSampleConfig"}

\* the file the last call wrote
FileWritten == IF last.op = "WriteSampleConfig" THEN disk[last.arg] ELSE file

\* C18 as stated: every file written by Save (called by the caller or by a
\* mutation operation), WriteSampleConfig or Eject renders each of its lists
\* one element per line, never inline.
C18_ListsAlwaysBlock ==
    (last.op \in WritingOps /\ last.wrote) =>
        /\ FileWritten.state = "written"
        /\ \A k \in ListKeys : FileWritten.doc.style[k] = "block"

\* C18 as amended: every file written by Save, WriteSampleConfig or Eject
\* renders each list that has elements one element per line, and a list
\* without elements inline, as [].
C18_NonEmptyListsBlock ==
    (last.op \in WritingOps /\ last.wrote) =>
        /\ FileWritten.state = "written"
        /\ \A k \in ListKeys :
              FileWritten.doc.style[k] =
                  IF Len(FileWritten.doc.val[k]) = 0 THEN "flow" ELSE "block"

\* RemovePackage removed the only package and saved: the file has the
\* package list inline and the program list, tagged flow in the struct, one
\* element per line
C18_Witness ==
    /\ last.op = "RemovePackage"
    /\ last.wrote
    /\ file.state = "written"
    /\ file.doc.val.packages = <<>>
    /\ file.doc.style["packages"] = "flow"
    /\ Len(file.doc.val.programs) > 0
    /\ file.doc.style["programs"] = "block"

----------------------------------------------------------------------------
(* C19: what the mutation operations and Validate leave alone *)

\* C19: AddPackage and RemovePackage change no field of the Config in memory
\* other than Packages, AddProgram and RemoveProgram none other than
\* Programs, and Validate none at all, whether the call succeeds or fails;
\* so FlakeDir, Shell, Bling, Aliases, Paths, Ejected and Systems are
\* unchanged by all five.
C19_MutationFrame ==
    [][/\ last'.op \in {"AddPackage", "RemovePackage"} =>
             c' = [c EXCEPT !.Packages = c'.Packages]
       /\ last'.op \in {"AddProgram", "RemoveProgram"} =>
             c' = [c EXCEPT !.Programs = c'.Programs]
       /\ last'.op = "Validate" => c' = c
       /\ last'.op \in MutationOps \cup {"Validate"} =>
             /\ c'.FlakeDir = c.FlakeDir /\ c'.Shell = c.Shell
             /\ c'.Bling = c.Bling /\ c'.Aliases = c.Aliases
             /\ c'.Paths = c.Paths /\ c'.Ejected = c.Ejected
             /\ c'.Systems = c.Systems]_vars

\* AddProgram failed validation on an ejected Config with an invalid shell:
\* the name is in the program list, the Config is still ejected and its
\* shell still the invalid one
C19_Witness ==
    /\ last.op = "AddProgram"
    /\ last.ret = ErrInvalidShell
    /\ c.Ejected
    /\ c.Programs = <<last.arg>>
    /\ c.Shell \notin SpecShells

----------------------------------------------------------------------------
(* C20: the package list stays free of duplicates *)

\* after RemovePackage returns anything but ErrPackageNotFound the name is not
\* in the package list
C20_RemovedNameAbsent ==
    (last'.op = "RemovePackage" /\ last'.ret # ErrPackageNotFound) =>
        ~Contains(c'.Packages, last'.arg)

\* C20: from a package list without duplicates, every sequence of AddPackage
\* and RemovePackage calls, successful or failing, on a valid or an invalid
\* Config, keeps the package list in memory free of duplicates, and after
\* RemovePackage(name) returns without PackageNotFound the name is absent
\* from the list.
C20_PackagesStayDistinct ==
    []NoDuplicates(c.Packages) /\ [][C20_RemovedNameAbsent]_vars

\* RemovePackage failed validation on an invalid Config that held two
\* packages: the name is gone from the list in memory, the other name is left
C20_Witness ==
    /\ last.op = "RemovePackage"
    /\ last.ret \in ValidationErrors
    /\ Len(c.Packages) = 1
    /\ ~Contains(c.Packages, last.arg)
    /\ file.state = "written"
    /\ Contains(UnmarshalConfig(file.doc).Packages, last.arg)

====
